---- MODULE Spec2Model ----
(***************************************************************************)
(* A model of the Request class (request construction, header table and    *)
(* lifecycle forwarding) and of the helpers of lib/core/util.js it uses.   *)
(*                                                                         *)
(* Five specifications share the variables:                                *)
(*   Spec      the lifecycle of one constructed request: the transport's   *)
(*             lifecycle calls interleaved with the body stream's events;  *)
(*   SpecCtor  the constructor, one call of it per step;                   *)
(*   SpecBody  a request body wrapped by wrapRequestBody and the iterators *)
(*             obtained from the wrapper;                                  *)
(*   SpecUtil  the pure helpers of util.js, one call per step;             *)
(*   SpecReentrant  onError and onComplete taken apart at the invocation   *)
(*             of the handler, so that the handler can call back into the  *)
(*             request while its callback is running.                      *)
(*                                                                         *)
(* Strings are sequences of character codes, so that lower-casing, the     *)
(* token grammar and the header-value grammar are computed, not assumed.   *)
(***************************************************************************)
EXTENDS Integers, Sequences, FiniteSets, TLC

VARIABLES
    \* ---- Request fields ----
    completed,      \* this.completed
    aborted,        \* this.aborted
    p_abort,        \* this.#abort : Undefined or the id of an abort function
    p_error,        \* this.#error : Undefined or the id of a stream error
    errorHandler,   \* this.errorHandler is set (a function)
    endHandler,     \* this.endHandler is set (a function)
    body,           \* this.body : "null", "buffer", or the body given, kept as it is
    p_handler,      \* this.#handler : the set of method names the handler has
    \* ---- the body stream (an event emitter) ----
    listeners,      \* events of the body stream this request listens to
    streamEnded,    \* the stream has emitted 'end'
    raised,         \* number of 'error' events the stream has emitted
    \* ---- observation of the calls made so far ----
    forwarded,      \* sequence of handler methods invoked
    delivered,      \* delivered[e] : how often an abort function received stream error e
    last,           \* the latest call: operation, outcome, what it did
    calls,          \* number of lifecycle calls made
    finalized,      \* onComplete or onError has been called
    published,      \* the observability event the latest step published, or "none"
    running,        \* the handler callbacks now executing, outermost first
    \* ---- construction ----
    phase,          \* "new", "constructed", or "failed" (the constructor threw)
    args,           \* the arguments the constructor was given
    threw,          \* the error the constructor threw
    method,         \* this.method
    upgrade,        \* this.upgrade
    idempotent,     \* this.idempotent
    blocking,       \* this.blocking
    reset,          \* this.reset
    host,           \* this.host
    contentLength,  \* this.contentLength
    contentType,    \* this.contentType
    p_headers,      \* this.#headers : the entries of the Map, in insertion order
    created,        \* the request-created event was published
    \* ---- util.js ----
    wrapped,        \* what wrapRequestBody returned: "none" yet, "body", "BodyAsyncIterable"
    kBody,          \* this[kBody] of the BodyAsyncIterable
    kBodyUsed,      \* this[kBodyUsed] of the BodyAsyncIterable
    iterators,      \* the generator objects obtained from the BodyAsyncIterable
    helperCall      \* the latest call of a pure helper: function, input, output

lifeVars == <<completed, aborted, p_abort, p_error, errorHandler, endHandler, body,
              p_handler, listeners, streamEnded, raised, forwarded, delivered, last,
              calls, finalized, published, running>>

ctorVars == <<phase, args, threw, method, upgrade, idempotent, blocking, reset, host,
              contentLength, contentType, p_headers, created>>

utilVars == <<wrapped, kBody, kBodyUsed, iterators, helperCall>>

vars == <<lifeVars, ctorVars, utilVars>>

\* ------------------------------------------------------------------ bounds
MaxCalls == 3
MaxStreamErrors == 2
NumAbortFns == 2

Undefined == 0
StreamErrors == 1..MaxStreamErrors
AbortFns == 1..NumAbortFns

\* ================================================================ strings
\* A string is the sequence of its character codes.
S_host == <<104, 111, 115, 116>>   \* 'host'
S_content_length == <<99, 111, 110, 116, 101, 110, 116, 45, 108, 101, 110, 103, 116, 104>>   \* 'content-length'
S_content_type == <<99, 111, 110, 116, 101, 110, 116, 45, 116, 121, 112, 101>>   \* 'content-type'
S_transfer_encoding == <<116, 114, 97, 110, 115, 102, 101, 114, 45, 101, 110, 99, 111, 100, 105, 110, 103>>   \* 'transfer-encoding'
S_keep_alive == <<107, 101, 101, 112, 45, 97, 108, 105, 118, 101>>   \* 'keep-alive'
S_upgrade == <<117, 112, 103, 114, 97, 100, 101>>   \* 'upgrade'
S_connection == <<99, 111, 110, 110, 101, 99, 116, 105, 111, 110>>   \* 'connection'
S_expect == <<101, 120, 112, 101, 99, 116>>   \* 'expect'
S_close == <<99, 108, 111, 115, 101>>   \* 'close'
S_Host == <<72, 111, 115, 116>>   \* 'Host'
S_Content_Length == <<67, 111, 110, 116, 101, 110, 116, 45, 76, 101, 110, 103, 116, 104>>   \* 'Content-Length'
S_Content_Type == <<67, 111, 110, 116, 101, 110, 116, 45, 84, 121, 112, 101>>   \* 'Content-Type'
S_Transfer_Encoding == <<84, 114, 97, 110, 115, 102, 101, 114, 45, 69, 110, 99, 111, 100, 105, 110, 103>>   \* 'Transfer-Encoding'
S_Keep_Alive == <<75, 101, 101, 112, 45, 65, 108, 105, 118, 101>>   \* 'Keep-Alive'
S_Upgrade == <<85, 112, 103, 114, 97, 100, 101>>   \* 'Upgrade'
S_Connection == <<67, 111, 110, 110, 101, 99, 116, 105, 111, 110>>   \* 'Connection'
S_Expect == <<69, 120, 112, 101, 99, 116>>   \* 'Expect'
S_EXPECT == <<69, 88, 80, 69, 67, 84>>   \* 'EXPECT'
S_x_test == <<120, 45, 116, 101, 115, 116>>   \* 'x-test'
S_bad_key == <<120, 32, 116, 101, 115, 116>>   \* 'x test'
S_ok == <<111, 107>>   \* 'ok'
S_crlf == <<97, 13, 10, 98>>   \* 'a\r\nb'
S_5 == <<53>>   \* '5'
S_10 == <<49, 48>>   \* '10'
S_minus5 == <<45, 53>>   \* '-5'
S_Close == <<67, 108, 111, 115, 101>>   \* 'Close'
S_foo == <<102, 111, 111>>   \* 'foo'
S_undefined == <<117, 110, 100, 101, 102, 105, 110, 101, 100>>   \* 'undefined'
S_null == <<110, 117, 108, 108>>   \* 'null'
S_true == <<116, 114, 117, 101>>   \* 'true'
S_false == <<102, 97, 108, 115, 101>>   \* 'false'
S_NaN == <<78, 97, 78>>   \* 'NaN'
S_GET == <<71, 69, 84>>   \* 'GET'
S_HEAD == <<72, 69, 65, 68>>   \* 'HEAD'
S_CONNECT == <<67, 79, 78, 78, 69, 67, 84>>   \* 'CONNECT'
S_websocket == <<119, 101, 98, 115, 111, 99, 107, 101, 116>>   \* 'websocket'
S_DELETE == <<68, 69, 76, 69, 84, 69>>   \* 'DELETE'
S_OPTIONS == <<79, 80, 84, 73, 79, 78, 83>>   \* 'OPTIONS'
S_POST == <<80, 79, 83, 84>>   \* 'POST'
S_PUT == <<80, 85, 84>>   \* 'PUT'
S_PATCH == <<80, 65, 84, 67, 72>>   \* 'PATCH'
S_patch == <<112, 97, 116, 99, 104>>   \* 'patch'
S_content_disposition == <<99, 111, 110, 116, 101, 110, 116, 45, 100, 105, 115, 112, 111, 115, 105, 116, 105, 111, 110>>   \* 'content-disposition'
S_a == <<97>>   \* 'a'
S_A == <<65>>   \* 'A'
S_b == <<98>>   \* 'b'
S_x == <<120>>   \* 'x'
S_y == <<121>>   \* 'y'
S_bytes_eq == <<98, 121, 116, 101, 115, 61>>   \* 'bytes='
S_bytes_sp == <<98, 121, 116, 101, 115, 32>>   \* 'bytes '

\* String.prototype.toLowerCase on codes up to 0xFF.
toLowerCase(str) ==
    [ i \in 1..Len(str) |->
        IF str[i] \in 65..90 \/ (str[i] \in 192..222 /\ str[i] # 215)
        THEN str[i] + 32 ELSE str[i] ]

\* ---------------------------------------------------- grammar predicates
isTokenCharCode(c) ==
    ~( \/ c = 34 \/ (c >= 40 /\ c <= 41)
       \/ (c >= 44 /\ c <= 47) \/ (c >= 58 /\ c <= 62)
       \/ (c >= 64 /\ c <= 93) \/ (c >= 123 /\ c <= 125)
       \/ (c < 33 \/ c > 126) )

isValidHTTPToken(str) ==
    Len(str) > 0 /\ \A i \in 1..Len(str) : isTokenCharCode(str[i])

\* Mutant: a header-value grammar that lets CR and LF through.
isValidHeaderValue_allowsCRLF(str) ==
    ~ \E i \in 1..Len(str) :
        ~(str[i] \in {9, 10, 13} \/ (str[i] >= 32 /\ str[i] <= 126)
            \/ (str[i] >= 128 /\ str[i] <= 255))

\* !/[^\t\x20-\x7e\x80-\xff]/.test(str)
isValidHeaderValue(str) ==
    ~ \E i \in 1..Len(str) :
        ~(str[i] = 9 \/ (str[i] >= 32 /\ str[i] <= 126) \/ (str[i] >= 128 /\ str[i] <= 255))

\* -------------------------------------------------------------- JS values
\* t is the typeof tag ("null" and "array" apart); s the characters of a
\* string (or "NaN" for the number NaN); n a number (1/0 for a boolean);
\* a the elements of an array.
Undef == [t |-> "undefined", s |-> <<>>, n |-> 0, a |-> <<>>]
Null == [t |-> "null", s |-> <<>>, n |-> 0, a |-> <<>>]
Str(str) == [t |-> "string", s |-> str, n |-> 0, a |-> <<>>]
Num(k) == [t |-> "number", s |-> <<>>, n |-> k, a |-> <<>>]
NaN == [t |-> "number", s |-> S_NaN, n |-> 0, a |-> <<>>]
Bool(b) == [t |-> "boolean", s |-> <<>>, n |-> IF b THEN 1 ELSE 0, a |-> <<>>]
Arr(elems) == [t |-> "array", s |-> <<>>, n |-> 0, a |-> elems]

IsNaN(v) == v.t = "number" /\ v.s # <<>>

RECURSIVE Digits(_)
Digits(k) == IF k < 10 THEN <<48 + k>> ELSE Append(Digits(k \div 10), 48 + (k % 10))

RECURSIVE JSString(_)
RECURSIVE Join(_, _)
\* Array.prototype.join(','): null and undefined elements give ''.
Join(elems, i) ==
    IF i > Len(elems) THEN <<>>
    ELSE (IF i > 1 THEN <<44>> ELSE <<>>)
         \o (IF elems[i].t \in {"null", "undefined"} THEN <<>> ELSE JSString(elems[i]))
         \o Join(elems, i + 1)

\* `${v}`
JSString(v) ==
    CASE v.t = "string" -> v.s
      [] v.t = "number" -> IF IsNaN(v) THEN S_NaN
                           ELSE IF v.n < 0 THEN <<45>> \o Digits(-v.n) ELSE Digits(v.n)
      [] v.t = "boolean" -> IF v.n = 1 THEN S_true ELSE S_false
      [] v.t = "null" -> S_null
      [] v.t = "undefined" -> S_undefined
      [] v.t = "array" -> Join(v.a, 1)

\* The white space parseInt skips (the codes up to 0xFF).
IsWhiteSpace(c) == c \in {9, 10, 11, 12, 13, 32, 160}

RECURSIVE SkipWhiteSpace(_, _)
SkipWhiteSpace(str, i) ==
    IF i <= Len(str) /\ IsWhiteSpace(str[i]) THEN SkipWhiteSpace(str, i + 1) ELSE i

RECURSIVE DigitsValue(_, _, _)
\* The value of the longest run of decimal digits of str from i on, after acc;
\* -1 when there is no digit at i and acc is -1.
DigitsValue(str, i, acc) ==
    IF i <= Len(str) /\ str[i] \in 48..57
    THEN DigitsValue(str, i + 1, (IF acc < 0 THEN 0 ELSE acc) * 10 + (str[i] - 48))
    ELSE acc

\* parseInt(value, 10): the argument is converted to a string first.
parseInt(v) ==
    LET str == JSString(v)
        i == SkipWhiteSpace(str, 1)
        neg == i <= Len(str) /\ str[i] = 45
        j == IF i <= Len(str) /\ str[i] \in {43, 45} THEN i + 1 ELSE i
        val == DigitsValue(str, j, -1)
    IN  IF val < 0 THEN NaN ELSE Num(IF neg THEN -val ELSE val)

\* Number.isFinite
isFinite(v) == v.t = "number" /\ ~IsNaN(v)

\* ----------------------------------------------------------------- errors
NoError == [name |-> "none", message |-> ""]
InvalidArgumentError(message) == [name |-> "InvalidArgumentError", message |-> message]
NotSupportedError(message) == [name |-> "NotSupportedError", message |-> message]
AssertionError(message) == [name |-> "AssertionError", message |-> message]

\* ---------------------------------------------------------- header table
\* headerNameLowerCasedRecord: each well-known header name, as written and
\* lower-cased, mapped to its lower-cased form; <<>> for any other key.
WellKnownHeaderNames ==
    {S_Host, S_Content_Length, S_Content_Type, S_Transfer_Encoding, S_Keep_Alive,
     S_Upgrade, S_Connection, S_Expect}

LowerCasedHeaderNames == {toLowerCase(k) : k \in WellKnownHeaderNames}

headerNameLowerCasedRecord(key) ==
    IF key \in WellKnownHeaderNames \/ key \in LowerCasedHeaderNames
    THEN toLowerCase(key) ELSE <<>>

\* Map.prototype.set on the header table, a list of entries in insertion order.
MapSet(h, key, value) ==
    IF \E i \in 1..Len(h) : h[i].key = key
    THEN [i \in 1..Len(h) |-> IF h[i].key = key THEN [key |-> key, value |-> value] ELSE h[i]]
    ELSE Append(h, [key |-> key, value |-> value])

\* Mutant: `upgrade` is missing from the forbidden headers.
ForbiddenHeaderNames_withoutUpgrade == {S_transfer_encoding, S_keep_alive}

\* case 'transfer-encoding': case 'keep-alive': case 'upgrade':
ForbiddenHeaderNames == {S_transfer_encoding, S_keep_alive, S_upgrade}

\* headerNameLowerCasedRecord[key] || key.toLowerCase()
canonicalName(key) ==
    IF headerNameLowerCasedRecord(key) # <<>>
    THEN headerNameLowerCasedRecord(key) ELSE toLowerCase(key)

\* The fields header processing writes; err is the error thrown, if any.
Throw(st, e) == [st EXCEPT !.err = e]

\* Mutant: a single-assignment field that every header overwrites.
fieldIsUnset_always(field) == TRUE

\* this.host === null, this.contentLength === null, this.contentType === null
fieldIsUnset(field) == field = Null

\* Mutant: `connection: close` leaves the reset flag alone.
connectionForcesReset_never(connValue) == FALSE

\* if (connValue === 'close') this.reset = true
connectionForcesReset(connValue) == connValue = Str(S_close)

\* assignHeader(headerName, value, originalKey) on the fields st.
assignHeader(st, headerName, value, originalKey) ==
    CASE headerName = S_host ->
            IF fieldIsUnset(st.host) /\ value.t = "string" THEN [st EXCEPT !.host = value] ELSE st
      [] headerName = S_content_length ->
            IF fieldIsUnset(st.contentLength)
            THEN IF ~isFinite(parseInt(value))
                 THEN Throw([st EXCEPT !.contentLength = parseInt(value)],
                            InvalidArgumentError("Invalid content-length header."))
                 ELSE [st EXCEPT !.contentLength = parseInt(value)]
            ELSE st
      [] headerName = S_content_type ->
            IF fieldIsUnset(st.contentType)
            THEN [st EXCEPT !.contentType = value,
                            !.headers = MapSet(st.headers, originalKey, value)]
            ELSE st
      [] headerName \in ForbiddenHeaderNames ->
            Throw(st, InvalidArgumentError("Invalid ${headerName} header."))
      [] headerName = S_connection ->
            LET connValue == IF value.t = "string" THEN Str(toLowerCase(value.s)) ELSE Null
            IN  IF connValue \notin {Str(S_close), Str(S_keep_alive)}
                THEN Throw(st, InvalidArgumentError("Invalid connection header"))
                ELSE IF connectionForcesReset(connValue) THEN [st EXCEPT !.reset = Bool(TRUE)]
                ELSE st
      [] headerName = S_expect ->
            Throw(st, NotSupportedError("Expect header not supported."))
      [] OTHER -> [st EXCEPT !.headers = MapSet(st.headers, originalKey, value)]

\* value.map(v => typeof v === 'string' && isValidHeaderValue(v) ? v
\*                                      : (v === null ? '' : `${v}`))
normalizeElement(v) ==
    IF v.t = "string" /\ isValidHeaderValue(v.s) THEN v
    ELSE IF v.t = "null" THEN Str(<<>>) ELSE Str(JSString(v))

\* The value addHeader hands to assignHeader: an array element by element,
\* a scalar as a string (null as '').
normalizeValue(value) ==
    IF value.t = "array"
    THEN Arr([i \in 1..Len(value.a) |-> normalizeElement(value.a[i])])
    ELSE IF value.t = "null" THEN Str(<<>>) ELSE Str(JSString(value))

\* addHeader(key, value) on the fields st.
addHeader(st, key, value) ==
    IF value.t = "undefined" THEN st
    ELSE
    LET headerName == canonicalName(key)
    IN  IF headerNameLowerCasedRecord(headerName) = <<>> /\ ~isValidHTTPToken(headerName)
        THEN Throw(st, InvalidArgumentError("Invalid header key."))
        ELSE IF value.t = "array"
        THEN assignHeader(st, headerName, normalizeValue(value), key)
        ELSE IF value.t = "string" /\ ~isValidHeaderValue(value.s)
        THEN Throw(st, InvalidArgumentError("Invalid ${key} header."))
        ELSE assignHeader(st, headerName, normalizeValue(value), key)

RECURSIVE addHeaders(_, _, _)
\* The loop of processHeaders over name/value pairs; a throw ends it.
addHeaders(st, items, i) ==
    IF st.err # NoError \/ i > Len(items) THEN st
    ELSE addHeaders(addHeader(st, items[i].s, items[i + 1]), items, i + 2)

\* processHeaders(headers): headers is [form, items]; for an array, items are
\* its elements; for an object, its entries' keys and values in turn.
processHeaders(st, headers) ==
    CASE headers.form = "array" ->
            IF Len(headers.items) % 2 # 0
            THEN Throw(st, InvalidArgumentError("Headers array must be even."))
            ELSE addHeaders(st, headers.items, 1)
      [] headers.form = "object" -> addHeaders(st, headers.items, 1)
      [] headers.form \in {"undefined", "null"} -> st
      [] OTHER -> Throw(st, InvalidArgumentError("Headers must be an object or an array."))


\* ---------------------------------------------------------------- handler
AllMethods == {"onConnect", "onBodySent", "onRequestSent", "onResponseStarted",
               "onHeaders", "onData", "onUpgrade", "onComplete", "onError"}

\* JS truthiness.
Truthy(v) ==
    CASE v.t \in {"undefined", "null"} -> FALSE
      [] v.t = "string" -> v.s # <<>>
      [] v.t = "number" -> ~IsNaN(v) /\ v.n # 0
      [] v.t = "boolean" -> v.n = 1
      [] OTHER -> TRUE

\* assertRequestHandler: the methods it asserts the handler has.
RequiredMethods(m, upg) ==
    {"onConnect", "onError"} \cup
    (IF ~(Truthy(upg) \/ m = Str(S_CONNECT))
     THEN {"onHeaders", "onData", "onComplete"} ELSE {})

\* assertRequestHandler(handler, method, upgrade): the error it throws.
assertRequestHandler(handler, m, upg) ==
    IF RequiredMethods(m, upg) \subseteq handler THEN NoError
    ELSE AssertionError("Invalid ${methodName} method")

\* A handler method either returns or throws synchronously.
HandlerBehaviours == {"returns", "throws"}

\* The error a handler method throws (distinct from every stream error).
HandlerError == MaxStreamErrors + 1

\* ------------------------------------------------------------ body stream
IsStreamBody(b) == b \in {"stream", "streamAutoDestroy"}

\* setupStream: the fields and the listeners after body.on(...).  An 'end'
\* listener is attached only when the stream does not destroy itself.
setupStream(b) ==
    [ errorHandler |-> TRUE,
      endHandler   |-> (b # "streamAutoDestroy"),
      listeners    |-> IF b # "streamAutoDestroy" THEN {"error", "end"} ELSE {"error"} ]

\* Mutant: a cleanup that detaches the 'error' listener and forgets 'end'.
cleanupStreamListeners_errorOnly(eh, nh, ls) ==
    [ errorHandler |-> FALSE,
      endHandler   |-> nh,
      listeners    |-> ls \ (IF eh THEN {"error"} ELSE {}) ]

\* cleanupStreamListeners: the fields and the listeners after body.off(...).
cleanupStreamListeners(eh, nh, ls) ==
    [ errorHandler |-> FALSE,
      endHandler   |-> FALSE,
      listeners    |-> (ls \ (IF eh THEN {"error"} ELSE {})) \ (IF nh THEN {"end"} ELSE {}) ]

\* Mutant: a finalization that detaches only the 'end' listener.
onFinally_endOnly ==
    [ errorHandler |-> errorHandler,
      endHandler   |-> FALSE,
      listeners    |-> listeners \ {"end"} ]

\* onFinally: cleanupStreamListeners(this.body).
onFinally == cleanupStreamListeners(errorHandler, endHandler, listeners)

Finalize ==
    /\ errorHandler' = onFinally.errorHandler
    /\ endHandler' = onFinally.endHandler
    /\ listeners' = onFinally.listeners
    /\ finalized' = TRUE

\* ------------------------------------------------------------ observation
\* op: the operation; arg: the abort function it was given (onConnect);
\* result: how it left; fwd: the handler method it invoked; abortFn, abortErr:
\* the abort function it invoked and the error passed; thrown: the handler threw.
Call(op, arg, result, fwd, fn, err, thrown) ==
    [ op |-> op, arg |-> arg, result |-> result, fwd |-> fwd, abortFn |-> fn,
      abortErr |-> err, thrown |-> thrown ]

NoCall == Call("none", Undefined, "none", "none", Undefined, Undefined, FALSE)

\* `this.abort`: the class declares the private field #abort and assigns only
\* that one; no method or property named abort exists on a Request.
thisAbort == Undefined

\* invokeHandlerMethod(method, ...args), called by lifecycle operation op,
\* with a handler that behaves as hb.  A thrown error is caught and
\* this.abort(err) is called; calling an undefined property is a TypeError,
\* which leaves the lifecycle call.
invokeHandlerMethod(op, arg, m, hb) ==
    IF m \in p_handler
    THEN /\ forwarded' = Append(forwarded, m)
         /\ IF hb = "throws"
            THEN IF thisAbort = Undefined
                 THEN last' = Call(op, arg, "TypeError", m, Undefined, Undefined, TRUE)
                 ELSE last' = Call(op, arg, "returned", m, thisAbort, HandlerError, TRUE)
            ELSE last' = Call(op, arg, "returned", m, Undefined, Undefined, FALSE)
    ELSE /\ forwarded' = forwarded
         /\ last' = Call(op, arg, "returned", "none", Undefined, Undefined, FALSE)

\* Mutants of the precondition: one of the two assertions is missing.
assertNotTerminal_onlyAborted == ~aborted

assertNotTerminal_onlyCompleted == ~completed

\* assert(!this.aborted); assert(!this.completed);
assertNotTerminal == ~aborted /\ ~completed

AssertionFails(op, arg) ==
    /\ last' = Call(op, arg, "AssertionError", "none", Undefined, Undefined, FALSE)
    /\ forwarded' = forwarded

\* ------------------------------------------------------- lifecycle calls
BeginCall ==
    /\ phase = "constructed"
    /\ calls < MaxCalls
    /\ calls' = calls + 1
    /\ UNCHANGED <<ctorVars, utilVars, running>>

\* Mutant: onConnect never looks at the deferred error.
hasDeferredError_never == FALSE

\* if (this.#error) in onConnect: a deferred error was recorded.
hasDeferredError == p_error # Undefined

\* Mutant: onError without its early return.
onErrorIsNoOp_never == FALSE

\* if (this.aborted) return; in onError.
onErrorIsNoOp == aborted

onBodySent(hb) ==
    /\ BeginCall
    /\ published' = "none"
    /\ invokeHandlerMethod("onBodySent", Undefined, "onBodySent", hb)
    /\ UNCHANGED <<completed, aborted, p_abort, p_error, errorHandler, endHandler, body,
                   p_handler, listeners, streamEnded, raised, delivered, finalized>>

\* The body-sent event is published before the handler is invoked.  Every
\* channel is taken to have a subscriber, so that each publish shows.
onRequestSent(hb) ==
    /\ BeginCall
    /\ published' = "bodySent"
    /\ invokeHandlerMethod("onRequestSent", Undefined, "onRequestSent", hb)
    /\ UNCHANGED <<completed, aborted, p_abort, p_error, errorHandler, endHandler, body,
                   p_handler, listeners, streamEnded, raised, delivered, finalized>>

onConnect(abort, hb) ==
    /\ BeginCall
    /\ published' = "none"
    /\ IF ~assertNotTerminal
       THEN /\ AssertionFails("onConnect", abort)
            /\ UNCHANGED <<p_abort, delivered>>
       ELSE IF hasDeferredError
       THEN \* abort(this.#error)
            /\ delivered' = [delivered EXCEPT ![p_error] = @ + 1]
            /\ last' = Call("onConnect", abort, "returned", "none", abort, p_error, FALSE)
            /\ forwarded' = forwarded
            /\ UNCHANGED p_abort
       ELSE /\ p_abort' = abort
            /\ invokeHandlerMethod("onConnect", abort, "onConnect", hb)
            /\ UNCHANGED delivered
    /\ UNCHANGED <<completed, aborted, p_error, errorHandler, endHandler, body,
                   p_handler, listeners, streamEnded, raised, finalized>>

onResponseStarted(hb) ==
    /\ BeginCall
    /\ published' = "none"
    /\ invokeHandlerMethod("onResponseStarted", Undefined, "onResponseStarted", hb)
    /\ UNCHANGED <<completed, aborted, p_abort, p_error, errorHandler, endHandler, body,
                   p_handler, listeners, streamEnded, raised, delivered, finalized>>

onHeaders(hb) ==
    /\ BeginCall
    /\ published' = (IF assertNotTerminal THEN "headers" ELSE "none")
    /\ IF ~assertNotTerminal
       THEN AssertionFails("onHeaders", Undefined)
       ELSE invokeHandlerMethod("onHeaders", Undefined, "onHeaders", hb)
    /\ UNCHANGED <<completed, aborted, p_abort, p_error, errorHandler, endHandler, body,
                   p_handler, listeners, streamEnded, raised, delivered, finalized>>

onData(hb) ==
    /\ BeginCall
    /\ published' = "none"
    /\ IF ~assertNotTerminal
       THEN AssertionFails("onData", Undefined)
       ELSE invokeHandlerMethod("onData", Undefined, "onData", hb)
    /\ UNCHANGED <<completed, aborted, p_abort, p_error, errorHandler, endHandler, body,
                   p_handler, listeners, streamEnded, raised, delivered, finalized>>

onUpgrade(hb) ==
    /\ BeginCall
    /\ published' = "none"
    /\ IF ~assertNotTerminal
       THEN AssertionFails("onUpgrade", Undefined)
       ELSE invokeHandlerMethod("onUpgrade", Undefined, "onUpgrade", hb)
    /\ UNCHANGED <<completed, aborted, p_abort, p_error, errorHandler, endHandler, body,
                   p_handler, listeners, streamEnded, raised, delivered, finalized>>

onComplete(hb) ==
    /\ BeginCall
    /\ published' = (IF assertNotTerminal THEN "trailers" ELSE "none")
    /\ Finalize
    /\ IF ~assertNotTerminal
       THEN /\ AssertionFails("onComplete", Undefined)
            /\ UNCHANGED completed
       ELSE /\ completed' = TRUE
            /\ invokeHandlerMethod("onComplete", Undefined, "onComplete", hb)
    /\ UNCHANGED <<aborted, p_abort, p_error, body, p_handler, streamEnded, raised,
                   delivered>>

onError(hb) ==
    /\ BeginCall
    /\ published' = "error"
    /\ Finalize
    /\ IF onErrorIsNoOp
       THEN /\ last' = Call("onError", Undefined, "returned", "none", Undefined, Undefined, FALSE)
            /\ forwarded' = forwarded
            /\ UNCHANGED aborted
       ELSE /\ aborted' = TRUE
            /\ invokeHandlerMethod("onError", Undefined, "onError", hb)
    /\ UNCHANGED <<completed, p_abort, p_error, body, p_handler, streamEnded, raised,
                   delivered>>

\* ------------------------------------------------------ body stream events
\* The stream emits 'error' with a fresh error.  The request's listener, when
\* attached, is  (err) => this.#abort ? this.#abort(err) : this.#error = err.
StreamError ==
    /\ phase = "constructed"
    /\ UNCHANGED <<ctorVars, utilVars, running>>
    /\ published' = "none"
    /\ IsStreamBody(body)
    /\ raised < MaxStreamErrors
    /\ raised' = raised + 1
    /\ IF "error" \in listeners
       THEN IF p_abort # Undefined
            THEN /\ delivered' = [delivered EXCEPT ![raised + 1] = @ + 1]
                 /\ last' = Call("body.error", Undefined, "emitted", "none", p_abort, raised + 1, FALSE)
                 /\ UNCHANGED p_error
            ELSE /\ p_error' = raised + 1
                 /\ last' = Call("body.error", Undefined, "emitted", "none", Undefined, Undefined, FALSE)
                 /\ UNCHANGED delivered
       ELSE /\ last' = Call("body.error", Undefined, "emitted", "none", Undefined, Undefined, FALSE)
            /\ UNCHANGED <<p_error, delivered>>
    /\ UNCHANGED <<completed, aborted, p_abort, errorHandler, endHandler, body, p_handler,
                   listeners, streamEnded, forwarded, calls, finalized>>

\* The stream emits 'end' (once).  The request's listener, when attached, is
\* () => this.cleanupStreamListeners(body).
StreamEnd ==
    /\ phase = "constructed"
    /\ UNCHANGED <<ctorVars, utilVars, running>>
    /\ published' = "none"
    /\ IsStreamBody(body)
    /\ ~streamEnded
    /\ streamEnded' = TRUE
    /\ IF "end" \in listeners
       THEN /\ errorHandler' = cleanupStreamListeners(errorHandler, endHandler, listeners).errorHandler
            /\ endHandler' = cleanupStreamListeners(errorHandler, endHandler, listeners).endHandler
            /\ listeners' = cleanupStreamListeners(errorHandler, endHandler, listeners).listeners
       ELSE UNCHANGED <<errorHandler, endHandler, listeners>>
    /\ last' = Call("body.end", Undefined, "emitted", "none", Undefined, Undefined, FALSE)
    /\ UNCHANGED <<completed, aborted, p_abort, p_error, body, p_handler, raised, forwarded,
                   delivered, calls, finalized>>

\* ============================================================ constructor
\* normalizedMethodRecords[method]
normalizedMethodRecords(m) ==
    m \in {S_DELETE, S_GET, S_HEAD, S_OPTIONS, S_POST, S_PUT, S_PATCH, S_patch}

\* validateInputs(options): the error it throws.  The options modelled are
\* method, upgrade, reset, expectContinue and throwOnError; the path is a
\* valid one and no timeout is given.
validateInputs(o) ==
    IF o.method.t # "string"
         \/ (~normalizedMethodRecords(o.method.s) /\ ~isValidHTTPToken(o.method.s))
    THEN InvalidArgumentError("Invalid request method.")
    ELSE IF Truthy(o.upgrade) /\ o.upgrade.t # "string"
    THEN InvalidArgumentError("Upgrade must be a string.")
    ELSE IF o.reset.t \notin {"undefined", "null", "boolean"}
    THEN InvalidArgumentError("Invalid reset.")
    ELSE IF o.expectContinue.t \notin {"undefined", "null", "boolean"}
    THEN InvalidArgumentError("Invalid expectContinue.")
    ELSE IF o.throwOnError.t \notin {"undefined", "null"}
    THEN InvalidArgumentError("Invalid throwOnError.")
    ELSE NoError

\* The body values given: nothing; a stream with or without autoDestroy; a
\* non-empty and an empty string; a non-empty and an empty Buffer; a
\* non-empty DataView; a FormData; an iterable (an array, a generator); an
\* object with Symbol.asyncIterator only (an async generator); a Blob; a
\* plain object; the numbers 42 and 0; false.
BodyInputs ==
    {"undefined", "stream", "streamAutoDestroy", "string", "emptyString", "bytes",
     "emptyBytes", "dataView", "formData", "iterable", "asyncIterable", "blob", "object",
     "number", "zero", "false"}

\* options.body ? ... : null
BodyIsTruthy(b) == b \notin {"undefined", "emptyString", "zero", "false"}

\* Buffer.isBuffer(buffer) || buffer instanceof Uint8Array
isBuffer(b) == b \in {"bytes", "emptyBytes"}

\* ArrayBuffer.isView(body)
ArrayBufferIsView(b) == b \in {"bytes", "emptyBytes", "dataView"}

\* body.length is truthy: a DataView has no length.
BodyLengthIsTruthy(b) == b \in {"string", "bytes"}

isFormDataLike(b) == b = "formData"

\* obj != null && typeof obj[Symbol.iterator] === 'function'
isIterable(b) == b \in {"iterable", "string", "emptyString", "bytes", "emptyBytes"}

isBlobLike(b) == b = "blob"

\* processBody(body): the value of this.body, whether setupStream ran, and
\* the error thrown.
processBody(b) ==
    IF IsStreamBody(b)
    THEN [body |-> b, setup |-> TRUE, err |-> NoError]
    ELSE IF isBuffer(b) \/ ArrayBufferIsView(b) \/ b \in {"string", "emptyString"}
    THEN [body |-> IF BodyLengthIsTruthy(b) THEN "buffer" ELSE "null", setup |-> FALSE,
          err |-> NoError]
    ELSE IF isFormDataLike(b) \/ isIterable(b) \/ isBlobLike(b)
    THEN [body |-> b, setup |-> FALSE, err |-> NoError]
    ELSE [body |-> "unset", setup |-> FALSE,
          err |-> InvalidArgumentError("Body must be a valid type")]

\* x ?? y
Coalesce(x, y) == IF x.t \in {"undefined", "null"} THEN y ELSE x

\* The fields of a Request before the constructor has assigned any.
Blank ==
    [ phase |-> "new", threw |-> NoError, method |-> Undef, upgrade |-> Undef,
      body |-> "unset", completed |-> FALSE, aborted |-> FALSE, idempotent |-> Undef,
      blocking |-> Undef, reset |-> Undef, host |-> Undef, contentLength |-> Undef,
      contentType |-> Undef, headers |-> <<>>, handler |-> {}, errorHandler |-> FALSE,
      endHandler |-> FALSE, listeners |-> {}, created |-> FALSE ]

Failed(r, e) == [r EXCEPT !.phase = "failed", !.threw = e]

\* The fields header processing starts from (lines 21-26).
HeaderFields(resetOption) ==
    [ host |-> Null, contentLength |-> Null, contentType |-> Null,
      reset |-> Coalesce(resetOption, Null), headers |-> <<>>, err |-> NoError ]

\* The constructor from line 10 on, given pb, the outcome of line 13, and st,
\* the outcome of processHeaders (line 27).
ConstructFrom(a, pb, st) ==
    LET o == a.options
        r1 == [Blank EXCEPT
                 !.method = o.method,
                 !.errorHandler = pb.setup /\ setupStream(o.body).errorHandler,
                 !.endHandler = pb.setup /\ setupStream(o.body).endHandler,
                 !.listeners = IF pb.setup THEN setupStream(o.body).listeners ELSE {}]
        r3 == [r1 EXCEPT
                 !.body = pb.body,
                 !.upgrade = IF Truthy(o.upgrade) THEN o.upgrade ELSE Null,
                 !.idempotent = Coalesce(o.idempotent,
                                         Bool(o.method = Str(S_HEAD) \/ o.method = Str(S_GET))),
                 !.blocking = Coalesce(o.blocking, Bool(o.method # Str(S_HEAD))),
                 !.reset = st.reset, !.host = st.host,
                 !.contentLength = st.contentLength, !.contentType = st.contentType,
                 !.headers = st.headers]
    IN  IF pb.err # NoError THEN Failed(r1, pb.err)
        ELSE IF st.err # NoError THEN Failed(r3, st.err)
        ELSE IF assertRequestHandler(a.handler, o.method, o.upgrade) # NoError
        THEN Failed(r3, assertRequestHandler(a.handler, o.method, o.upgrade))
        ELSE [r3 EXCEPT !.phase = "constructed", !.handler = a.handler, !.created = TRUE]

\* new Request(origin, options, handler): the fields when the constructor
\* returns or throws, a = [options, handler].  The statements run in the
\* order of the source: validateInputs, processBody (which attaches the
\* stream listeners), the scalar fields, processHeaders,
\* assertRequestHandler, #handler, the request-created event.
Construct(a) ==
    IF validateInputs(a.options) # NoError
    THEN Failed(Blank, validateInputs(a.options))
    ELSE ConstructFrom(a,
                       IF BodyIsTruthy(a.options.body) THEN processBody(a.options.body)
                       ELSE [body |-> "null", setup |-> FALSE, err |-> NoError],
                       processHeaders(HeaderFields(a.options.reset), a.options.headers))

\* No body has been wrapped and no helper called.
NoBody == [kind |-> "none", length |-> 0]

NoResult == [fn |-> "none", input |-> <<>>, output |-> <<>>]

\* The variables hold the fields r and the arguments a; the stream has
\* emitted nothing and no lifecycle call has been made.
StateIs(r, a) ==
    /\ phase = r.phase /\ args = a /\ threw = r.threw
    /\ method = r.method /\ upgrade = r.upgrade /\ body = r.body
    /\ completed = r.completed /\ aborted = r.aborted
    /\ idempotent = r.idempotent /\ blocking = r.blocking /\ reset = r.reset
    /\ host = r.host /\ contentLength = r.contentLength /\ contentType = r.contentType
    /\ p_headers = r.headers /\ p_handler = r.handler
    /\ errorHandler = r.errorHandler /\ endHandler = r.endHandler
    /\ listeners = r.listeners /\ created = r.created
    /\ p_abort = Undefined /\ p_error = Undefined
    /\ streamEnded = FALSE /\ raised = 0 /\ forwarded = <<>>
    /\ delivered = [e \in StreamErrors |-> 0]
    /\ last = NoCall /\ calls = 0 /\ finalized = FALSE
    /\ published = "none" /\ running = <<>>
    /\ wrapped = "none" /\ kBody = NoBody /\ kBodyUsed = FALSE /\ iterators = <<>>
    /\ helperCall = NoResult

\* ---------------------------------------------------- constructor inputs
NoHeaders == [form |-> "undefined", items |-> <<>>]

Options(m, upg, b, h) ==
    [ method |-> m, upgrade |-> upg, body |-> b, headers |-> h, reset |-> Undef,
      idempotent |-> Undef, blocking |-> Undef, expectContinue |-> Undef,
      throwOnError |-> Undef ]

Args(o, handler) == [options |-> o, handler |-> handler]

\* A handler with every method, one with exactly the methods a plain request
\* needs, and one for an upgrade with the two required methods and onUpgrade.
FullHandler == AllMethods

PlainHandler == RequiredMethods(Str(S_GET), Undef)

UpgradeHandler == RequiredMethods(Str(S_GET), Str(S_websocket)) \cup {"onUpgrade"}

\* A handler with onConnect and onError only, and one without onError.
MinimalHandler == {"onConnect", "onError"}

ConnectOnlyHandler == {"onConnect"}

\* ------------------------------------------------------------------ Spec
\* The lifecycle of a constructed request: each request the constructor
\* returns for a body that is absent or a stream and a handler that passes
\* assertRequestHandler.
BodyKinds == {"undefined", "stream", "streamAutoDestroy"}

LifecycleArgs ==
    { Args(Options(Str(S_GET), uh[1], b, NoHeaders), uh[2]) :
        uh \in { <<Undef, FullHandler>>, <<Undef, PlainHandler>>,
                 <<Str(S_websocket), UpgradeHandler>> },
        b \in BodyKinds }

Init ==
    \E a \in LifecycleArgs : \E r \in {Construct(a)} :
        /\ r.phase = "constructed"
        /\ StateIs(r, a)

Next ==
    \/ \E hb \in HandlerBehaviours : onBodySent(hb)
    \/ \E hb \in HandlerBehaviours : onRequestSent(hb)
    \/ \E abort \in AbortFns, hb \in HandlerBehaviours : onConnect(abort, hb)
    \/ \E hb \in HandlerBehaviours : onResponseStarted(hb)
    \/ \E hb \in HandlerBehaviours : onHeaders(hb)
    \/ \E hb \in HandlerBehaviours : onData(hb)
    \/ \E hb \in HandlerBehaviours : onUpgrade(hb)
    \/ \E hb \in HandlerBehaviours : onComplete(hb)
    \/ \E hb \in HandlerBehaviours : onError(hb)
    \/ StreamError
    \/ StreamEnd

Spec == Init /\ [][Next]_vars

\* -------------------------------------------------------------- SpecCtor
\* The constructor on its own: from a request not yet constructed, one call
\* of the constructor.
MaxHeaders == 2

\* Header names as callers write them, and values of each kind.
HeaderKeys ==
    {S_Host, S_x_test, S_Content_Type, S_Transfer_Encoding, S_keep_alive, S_Upgrade,
     S_EXPECT}

HeaderValues ==
    {Str(S_ok), Str(S_crlf), Null, Undef, Arr(<<Str(S_ok), Str(S_crlf)>>)}

\* The array (or the entries of the object) made of the name/value pairs f.
Flatten(f) ==
    [ i \in 1..(2 * Len(f)) |-> IF i % 2 = 1 THEN Str(f[(i + 1) \div 2][1]) ELSE f[i \div 2][2] ]

\* The keys of an object are distinct.
DistinctKeys(f) == \A i, j \in 1..Len(f) : i # j => f[i][1] # f[j][1]

\* Header options that are no list of pairs: absent, null, a string, an
\* array of odd length.
OtherHeaderInputs ==
    { NoHeaders, [form |-> "null", items |-> <<>>], [form |-> "string", items |-> <<>>],
      [form |-> "array", items |-> <<Str(S_Host)>>] }

\* Arguments that vary the method, the upgrade, the body and the handler.
OtherCtorArgs ==
    { Args(Options(m, upg, b, h), handler) :
        m \in {Str(S_GET), Str(S_CONNECT)}, upg \in {Undef, Str(S_websocket)},
        b \in BodyInputs, h \in OtherHeaderInputs,
        handler \in {FullHandler, PlainHandler, UpgradeHandler, MinimalHandler,
                     ConnectOnlyHandler} }

InitCtor == StateIs(Blank, Args(Options(Undef, Undef, "undefined", NoHeaders), {}))

\* The variables after the constructor has run on a and left the fields r.
Constructed(r, a) ==
    /\ phase' = r.phase /\ args' = a /\ threw' = r.threw
    /\ method' = r.method /\ upgrade' = r.upgrade /\ body' = r.body
    /\ completed' = r.completed /\ aborted' = r.aborted
    /\ idempotent' = r.idempotent /\ blocking' = r.blocking
    /\ reset' = r.reset /\ host' = r.host
    /\ contentLength' = r.contentLength /\ contentType' = r.contentType
    /\ p_headers' = r.headers /\ p_handler' = r.handler
    /\ errorHandler' = r.errorHandler /\ endHandler' = r.endHandler
    /\ listeners' = r.listeners /\ created' = r.created
    /\ UNCHANGED <<p_abort, p_error, streamEnded, raised, forwarded, delivered, last, calls,
                   finalized, published, running>>
    /\ UNCHANGED utilVars

\* new Request(...) with a list of at most MaxHeaders headers, as an array
\* or as an object.
ConstructorWithHeaders ==
    /\ phase = "new"
    /\ \E n \in 0..MaxHeaders : \E f \in [1..n -> HeaderKeys \X HeaderValues] :
       \E form \in {"array", "object"} :
          /\ form = "object" => DistinctKeys(f)
          /\ \E a \in { Args(Options(Str(S_GET), Undef, "undefined",
                                     [form |-> form, items |-> Flatten(f)]), FullHandler) } :
             \E r \in {Construct(a)} : Constructed(r, a)

\* new Request(...) with the other arguments varied.
ConstructorWithOptions ==
    /\ phase = "new"
    /\ \E a \in OtherCtorArgs : \E r \in {Construct(a)} : Constructed(r, a)

\* Names and values for the single-assignment fields host and content-length.
SingleAssignmentKeys == {S_Host, S_host, S_Content_Length}

SingleAssignmentValues ==
    {Str(S_ok), Str(S_crlf), Str(S_5), Str(S_10), Str(S_minus5), Arr(<<Str(S_ok)>>)}

\* new Request(...) with headers that name host and content-length.
ConstructorWithSingleAssignmentHeaders ==
    /\ phase = "new"
    /\ \E n \in 0..MaxHeaders :
       \E f \in [1..n -> SingleAssignmentKeys \X SingleAssignmentValues] :
       \E form \in {"array", "object"} :
          /\ form = "object" => DistinctKeys(f)
          /\ \E a \in { Args(Options(Str(S_GET), Undef, "undefined",
                                     [form |-> form, items |-> Flatten(f)]), FullHandler) } :
             \E r \in {Construct(a)} : Constructed(r, a)

\* Names and values around the connection header, and the reset option.
ConnectionKeys == {S_Connection, S_Host}

ConnectionValues ==
    {Str(S_close), Str(S_Close), Str(S_keep_alive), Str(S_ok), Arr(<<Str(S_close)>>)}

ResetOptions == {Undef, Null, Bool(FALSE), Bool(TRUE)}

\* new Request(...) with connection headers and options.reset.
ConstructorWithConnectionHeaders ==
    /\ phase = "new"
    /\ \E n \in 1..MaxHeaders :
       \E f \in [1..n -> ConnectionKeys \X ConnectionValues] :
       \E rst \in ResetOptions :
          \E a \in { Args([Options(Str(S_GET), Undef, "undefined",
                                    [form |-> "array", items |-> Flatten(f)])
                              EXCEPT !.reset = rst], FullHandler) } :
             \E r \in {Construct(a)} : Constructed(r, a)

\* Values of the options idempotent and blocking, of expectContinue and of
\* throwOnError.
FlagOptions == {Undef, Null, Bool(FALSE), Bool(TRUE)}

ExpectContinueOptions == {Undef, Null, Bool(FALSE), Bool(TRUE), Str(S_ok), Num(1)}

ThrowOnErrorOptions == {Undef, Null, Bool(FALSE), Bool(TRUE)}

\* new Request(...) with the method and the flag options varied.
ConstructorWithFlags ==
    /\ phase = "new"
    /\ \E m \in {Str(S_GET), Str(S_HEAD), Str(S_POST)} :
       \E idem \in FlagOptions, blk \in FlagOptions :
       \E ec \in ExpectContinueOptions, toe \in ThrowOnErrorOptions :
          \E a \in { Args([Options(m, Undef, "undefined", NoHeaders)
                              EXCEPT !.idempotent = idem, !.blocking = blk,
                                     !.expectContinue = ec, !.throwOnError = toe],
                           FullHandler) } :
             \E r \in {Construct(a)} : Constructed(r, a)

\* new Request(...) with a stream body and one header that is accepted, has
\* an invalid value or is forbidden.
ConstructorWithStreamBody ==
    /\ phase = "new"
    /\ \E b \in {"stream", "streamAutoDestroy"} :
       \E k \in {S_Host, S_Transfer_Encoding}, v \in {Str(S_ok), Str(S_crlf)} :
          \E a \in { Args(Options(Str(S_GET), Undef, b,
                                     [form |-> "array", items |-> <<Str(k), v>>]),
                             FullHandler) } :
             \E r \in {Construct(a)} : Constructed(r, a)

NextCtor ==
    \/ ConstructorWithStreamBody
    \/ ConstructorWithFlags
    \/ ConstructorWithHeaders
    \/ ConstructorWithOptions
    \/ ConstructorWithSingleAssignmentHeaders
    \/ ConstructorWithConnectionHeaders

SpecCtor == InitCtor /\ [][NextCtor]_vars

\* -------------------------------------------------------------- SpecBody
\* A body handed to wrapRequestBody, and the consumers of the wrapper.
MaxIterators == 3
MaxElements == 2

\* obj != null && typeof obj[Symbol.asyncIterator] === 'function'
isAsyncIterable(b) == b \in {"asyncIterable", "stream", "streamAutoDestroy"}

\* A generator object of BodyAsyncIterable.prototype[Symbol.asyncIterator]:
\* its state, whether next() was ever called on it, whether it has obtained
\* the iterator of this[kBody], how many elements of this[kBody] it has
\* yielded, and the error it threw.
NewIterator ==
    [ state |-> "suspendedStart", advanced |-> FALSE, opened |-> FALSE, yielded |-> 0,
      error |-> "none" ]

\* wrapRequestBody(body), the body having n elements.
wrapRequestBody(b, n) ==
    /\ wrapped = "none"
    /\ IF IsStreamBody(b) THEN wrapped' = "body" /\ UNCHANGED <<kBody, kBodyUsed>>
       ELSE IF isAsyncIterable(b) \/ isIterable(b)
       THEN /\ wrapped' = "BodyAsyncIterable"
            /\ kBody' = [kind |-> b, length |-> n]
            /\ kBodyUsed' = FALSE
       ELSE wrapped' = "body" /\ UNCHANGED <<kBody, kBodyUsed>>
    /\ UNCHANGED <<lifeVars, ctorVars, iterators, helperCall>>

\* wrapper[Symbol.asyncIterator](): calling an async generator function
\* creates the generator object and runs none of its body.
asyncIterator ==
    /\ wrapped = "BodyAsyncIterable"
    /\ Len(iterators) < MaxIterators
    /\ iterators' = Append(iterators, NewIterator)
    /\ UNCHANGED <<lifeVars, ctorVars, wrapped, kBody, kBodyUsed, helperCall>>

\* Mutant: the generator does not look at this[kBodyUsed].
bodyNotUsed_always == TRUE

\* assert(!this[kBodyUsed], 'Body has already been used')
bodyNotUsed == ~kBodyUsed

\* iterator.next().  On a generator not yet started the body runs from its
\* first statement: the assertion, this[kBodyUsed] = true, and yield*
\* this[kBody], which obtains the iterator of the body and yields its
\* elements one per next() until it is exhausted.
iteratorNext(i) ==
    /\ i \in 1..Len(iterators)
    /\ iterators[i].state # "completed"
    /\ IF iterators[i].state = "suspendedStart" /\ ~bodyNotUsed
       THEN /\ iterators' = [iterators EXCEPT ![i].state = "completed",
                                                ![i].advanced = TRUE,
                                                ![i].error = "AssertionError"]
            /\ UNCHANGED kBodyUsed
       ELSE /\ kBodyUsed' = TRUE
            /\ IF iterators[i].yielded < kBody.length
               THEN iterators' = [iterators EXCEPT ![i].state = "suspendedYield",
                                                   ![i].advanced = TRUE,
                                                   ![i].opened = TRUE,
                                                   ![i].yielded = @ + 1]
               ELSE iterators' = [iterators EXCEPT ![i].state = "completed",
                                                   ![i].advanced = TRUE,
                                                   ![i].opened = TRUE]
    /\ UNCHANGED <<lifeVars, ctorVars, wrapped, kBody, helperCall>>

\* iterator.return(): the generator completes; one not yet started runs none
\* of its body.
iteratorReturn(i) ==
    /\ i \in 1..Len(iterators)
    /\ iterators[i].state # "completed"
    /\ iterators' = [iterators EXCEPT ![i].state = "completed"]
    /\ UNCHANGED <<lifeVars, ctorVars, wrapped, kBody, kBodyUsed, helperCall>>

InitBody == InitCtor

NextBody ==
    \/ \E b \in BodyInputs, n \in 0..MaxElements : wrapRequestBody(b, n)
    \/ asyncIterator
    \/ \E i \in 1..MaxIterators : iteratorNext(i)
    \/ \E i \in 1..MaxIterators : iteratorReturn(i)

SpecBody == InitBody /\ [][NextBody]_vars

\* -------------------------------------------------------------- SpecUtil
\* headerNameToString(value) for a string: headerNameLowerCasedRecord[value]
\* ?? value.toLowerCase().
headerNameToString(value) ==
    IF headerNameLowerCasedRecord(value) # <<>>
    THEN headerNameLowerCasedRecord(value) ELSE toLowerCase(value)

\* An object is the list of its own properties in insertion order.
ObjHas(obj, key) == \E i \in 1..Len(obj) : obj[i].key = key

\* obj[key]
ObjGet(obj, key) ==
    IF ObjHas(obj, key)
    THEN obj[CHOOSE i \in 1..Len(obj) : obj[i].key = key].value
    ELSE Undef

RECURSIVE parseHeadersFrom(_, _, _)
\* The loop of parseHeaders from index i on; the raw headers are strings.
parseHeadersFrom(headers, i, obj) ==
    IF i > Len(headers) THEN obj
    ELSE LET key == headerNameToString(headers[i])
             value == Str(headers[i + 1])
             cur == ObjGet(obj, key)
         IN  parseHeadersFrom(headers, i + 2,
                IF ~Truthy(cur) THEN MapSet(obj, key, value)
                ELSE MapSet(obj, key,
                            IF cur.t = "array" THEN Arr(Append(cur.a, value))
                            ELSE Arr(<<cur, value>>)))

RECURSIVE Utf8(_, _)
\* The UTF-8 bytes of the characters of str from i on (codes up to 0x7FF).
Utf8(str, i) ==
    IF i > Len(str) THEN <<>>
    ELSE (IF str[i] < 128 THEN <<str[i]>>
          ELSE <<192 + (str[i] \div 64), 128 + (str[i] % 64)>>) \o Utf8(str, i + 1)

\* Buffer.from(v): the UTF-8 bytes of a string; of an array, each element
\* converted to a number and taken modulo 256 (a string of digits is that
\* number, '' is 0, a string that is no number is NaN, hence 0).
BufferFrom(v) ==
    IF v.t = "string" THEN Utf8(v.s, 1)
    ELSE [ i \in 1..Len(v.a) |->
             IF DigitsValue(v.a[i].s, 1, -1) >= 0
                  /\ \A j \in 1..Len(v.a[i].s) : v.a[i].s[j] \in 48..57
             THEN DigitsValue(v.a[i].s, 1, -1) % 256 ELSE 0 ]

\* parseHeaders(headers): the object built, and content-disposition
\* transcoded to latin1 (one character per byte) when content-length is
\* present as well.
parseHeaders(headers) ==
    LET obj == parseHeadersFrom(headers, 1, <<>>)
    IN  IF ObjHas(obj, S_content_length) /\ ObjHas(obj, S_content_disposition)
        THEN MapSet(obj, S_content_disposition,
                    Str(BufferFrom(ObjGet(obj, S_content_disposition))))
        ELSE obj

\* The inputs of the token predicate: every string of one character up to
\* 0x100 and the strings of at most MaxTokenLen characters of TokenAlphabet.
MaxTokenLen == 2

MaxCharCode == 256

\* a A 0 - . | ? ( space
TokenAlphabet == {97, 65, 48, 45, 46, 124, 63, 40, 32}

\* The inputs of parseHeaders: at most MaxRawPairs name/value pairs.
MaxRawPairs == 3

RawNames == {S_a, S_A, S_b, S_Content_Length, S_content_disposition}

RawValues == {<<>>, S_x, S_y}

\* The raw header list made of the pairs f.
RawHeaders(f) ==
    [ i \in 1..(2 * Len(f)) |-> IF i % 2 = 1 THEN f[(i + 1) \div 2][1] ELSE f[i \div 2][2] ]

\* One call of a helper, from the state in which none has been made.
Called(fn, input, output) ==
    /\ helperCall = NoResult
    /\ helperCall' = [fn |-> fn, input |-> input, output |-> output]
    /\ UNCHANGED <<lifeVars, ctorVars, wrapped, kBody, kBodyUsed, iterators>>

Call_isValidHTTPToken ==
    \/ \E c \in 0..MaxCharCode : Called("isValidHTTPToken", <<c>>, isValidHTTPToken(<<c>>))
    \/ \E n \in 0..MaxTokenLen : \E str \in [1..n -> TokenAlphabet] :
          Called("isValidHTTPToken", str, isValidHTTPToken(str))

Call_parseHeaders ==
    \E n \in 0..MaxRawPairs : \E f \in [1..n -> RawNames \X RawValues] :
        Called("parseHeaders", RawHeaders(f), parseHeaders(RawHeaders(f)))

RECURSIVE DigitsEnd(_, _)
\* The index after the longest run of decimal digits of str that starts at i.
DigitsEnd(str, i) ==
    IF i <= Len(str) /\ str[i] \in 48..57 THEN DigitsEnd(str, i + 1) ELSE i

\* /^bytes=(\d+)-(\d+)\/(\d+)?$/.exec(range): whether it matches and the
\* groups; group 3 is undefined when it takes no part in the match.
rangeRegExpExec(str) ==
    LET i1 == Len(S_bytes_eq) + 1
        j1 == DigitsEnd(str, i1)
        i2 == j1 + 1
        j2 == DigitsEnd(str, i2)
        i3 == j2 + 1
        j3 == DigitsEnd(str, i3)
    IN  IF /\ Len(str) >= Len(S_bytes_eq)
           /\ SubSeq(str, 1, Len(S_bytes_eq)) = S_bytes_eq
           /\ j1 > i1 /\ j1 <= Len(str) /\ str[j1] = 45
           /\ j2 > i2 /\ j2 <= Len(str) /\ str[j2] = 47
           /\ j3 = Len(str) + 1
        THEN [ matched |-> TRUE,
               m1 |-> Str(SubSeq(str, i1, j1 - 1)),
               m2 |-> Str(SubSeq(str, i2, j2 - 1)),
               m3 |-> IF j3 > i3 THEN Str(SubSeq(str, i3, j3 - 1)) ELSE Undef ]
        ELSE [matched |-> FALSE, m1 |-> Undef, m2 |-> Undef, m3 |-> Undef]

\* The object parseRangeHeader returns, and its failure signal null.
Range(start, end, size) == [t |-> "object", start |-> start, end |-> end, size |-> size]

RangeNull == [t |-> "null", start |-> Undef, end |-> Undef, size |-> Undef]

\* parseRangeHeader(range)
parseRangeHeader(range) ==
    IF ~Truthy(range) THEN Range(Num(0), Null, Null)
    ELSE LET match == rangeRegExpExec(range.s)
         IN  IF ~match.matched THEN RangeNull
             ELSE Range(parseInt(match.m1),
                        IF Truthy(match.m2) THEN parseInt(match.m2) ELSE Null,
                        IF Truthy(match.m3) THEN parseInt(match.m3) ELSE Null)

\* The inputs of parseRangeHeader: nothing, and the strings made of a unit,
\* a start, a dash, an end, a slash, a size and a tail, each possibly missing.
RangeUnits == {S_bytes_eq, S_bytes_sp, <<>>}

RangeNumbers == {<<>>, S_5, S_10}

RangeDashes == {<<45>>, <<>>}

RangeSlashes == {<<47>>, <<>>}

RangeTails == {<<>>, S_x}

Call_parseRangeHeader ==
    \/ \E range \in {Undef, Null} :
          Called("parseRangeHeader", range, parseRangeHeader(range))
    \/ \E u \in RangeUnits, st \in RangeNumbers, d \in RangeDashes, en \in RangeNumbers :
       \E sl \in RangeSlashes, sz \in RangeNumbers, tl \in RangeTails :
          Called("parseRangeHeader", Str(u \o st \o d \o en \o sl \o sz \o tl),
                 parseRangeHeader(Str(u \o st \o d \o en \o sl \o sz \o tl)))

InitUtil == InitCtor

NextUtil == Call_isValidHTTPToken \/ Call_parseHeaders \/ Call_parseRangeHeader

SpecUtil == InitUtil /\ [][NextUtil]_vars

\* ------------------------------------------------------------ vocabulary
\* The operations that assert the request is neither aborted nor completed
\* and that C3 names.
GuardedOps == {"onComplete", "onHeaders", "onData", "onUpgrade"}

TerminalMethods == {"onComplete", "onError"}

\* A step that is a lifecycle call of operation op.
IsCallOf(op) == calls' = calls + 1 /\ last'.op = op

\* A step in which the body stream emits 'error'.
IsStreamError == raised' = raised + 1

Count(seq, m) == Cardinality({i \in 1..Len(seq) : seq[i] = m})

\* ----------------------------------------------------------------- C1
\* C1: in no reachable state are `completed` and `aborted` both true.
\* onError tests only `aborted`, so onComplete followed by onError sets both.
C1_NeverBothTerminal == ~(completed /\ aborted)

C3_TerminalBlocksForwarding ==
    [][ (completed \/ aborted) /\ (\E op \in GuardedOps : IsCallOf(op))
            => forwarded' = forwarded /\ last'.fwd = "none" ]_vars

\* A guarded operation was called on a terminal request.
C3_Witness ==
    /\ completed \/ aborted
    /\ last.op \in GuardedOps
    /\ last.result = "AssertionError"
    /\ Len(forwarded) > 0

\* ----------------------------------------------------------------- C4
\* C4: the handler's onError is invoked at most once, and an onError call made
\* while `aborted` is true returns, invokes nothing and changes neither flag.
C4_OnErrorAtMostOnce ==
    /\ [](Count(forwarded, "onError") <= 1)
    /\ [][ aborted /\ IsCallOf("onError")
             => /\ last'.result = "returned"
                /\ last'.fwd = "none"
                /\ forwarded' = forwarded
                /\ aborted' = aborted
                /\ completed' = completed ]_vars

\* onError was called again after the handler's onError had been invoked.
C4_Witness ==
    /\ Count(forwarded, "onError") = 1
    /\ last.op = "onError"
    /\ last.fwd = "none"
    /\ last.result = "returned"
    /\ aborted

\* ----------------------------------------------------------------- C5
\* C5: when a handler method throws, the abort path receives the thrown error
\* and the lifecycle call returns.  The catch block calls this.abort, which
\* a Request does not have, so the call leaves with a TypeError instead.
C5_HandlerThrowIsConvertedToAbort ==
    last.thrown => last.result = "returned" /\ last.abortErr = HandlerError

C7_EachStreamErrorDeliveredOnce ==
    /\ \A e \in 1..raised : delivered[e] <= 1
    /\ (last.op = "onConnect" /\ last.result # "AssertionError")
          => \A e \in 1..raised : delivered[e] = 1

\* ----------------------------------------------------------------- C8
\* C8: after any onComplete or onError call the request listens to no event
\* of its body stream, and a later stream error reaches neither an abort
\* function nor the deferred-error slot.
C8_DetachedAfterTerminalCall ==
    /\ [](finalized => listeners = {} /\ ~errorHandler /\ ~endHandler)
    /\ [][ finalized /\ IsStreamError
             => delivered' = delivered /\ p_error' = p_error ]_vars

\* The stream raised an error after onComplete or onError had been called
\* on a request that was listening to it.
C8_Witness ==
    /\ finalized
    /\ IsStreamBody(body)
    /\ ~streamEnded
    /\ last.op = "body.error"
    /\ last.abortFn = Undefined

\* ------------------------------------------------- header claims (SpecCtor)
\* The spec's InvalidHeader is the InvalidArgumentError the header code
\* throws, told apart by its message.
IsInvalidHeader(e) ==
    /\ e.name = "InvalidArgumentError"
    /\ e.message \in {"Invalid header key.", "Invalid ${key} header.",
                      "Invalid ${headerName} header.", "Invalid content-length header.",
                      "Invalid connection header"}

\* The constructor ran on a header list of name/value pairs.
RanOnHeaderPairs ==
    /\ phase # "new"
    /\ args.options.headers.form \in {"array", "object"}
    /\ Len(args.options.headers.items) % 2 = 0

GivenItems == args.options.headers.items

NameIndexes == {i \in 1..Len(GivenItems) : i % 2 = 1}

\* v, or an element of v, is a string that isValidHeaderValue rejects.
HasInvalidPart(v) ==
    \/ v.t = "string" /\ ~isValidHeaderValue(v.s)
    \/ v.t = "array" /\ \E j \in 1..Len(v.a) : v.a[j].t = "string" /\ ~isValidHeaderValue(v.a[j].s)

\* The headers before the one at i are all accepted.
PrefixAccepted(i) ==
    addHeaders(HeaderFields(Undef), SubSeq(GivenItems, 1, i - 1), 1).err = NoError

\* ----------------------------------------------------------------- C9
\* C9: a header value that isValidHeaderValue rejects, given as a scalar or
\* as an element of an array, makes construction fail (with InvalidHeader
\* when it is the first header to fail) and is stored nowhere.  The array
\* branch of addHeader keeps an invalid string element as it is.
C9_InvalidValueNeverAccepted ==
    RanOnHeaderPairs =>
        /\ \A i \in NameIndexes :
              HasInvalidPart(GivenItems[i + 1])
                 => /\ phase = "failed"
                    /\ PrefixAccepted(i) => IsInvalidHeader(threw)
        /\ \A k \in 1..Len(p_headers) : ~HasInvalidPart(p_headers[k].value)
        /\ ~HasInvalidPart(host)
        /\ ~HasInvalidPart(contentType)

\* ----------------------------------------------------------------- C10
\* C10 (as stated): a header named transfer-encoding, keep-alive, upgrade or
\* expect, given any value (undefined apart, which is no value), makes
\* construction fail whatever its position, with InvalidHeader for the first
\* three and NotSupported for expect (the kind of error is compared when it
\* is the only header).
C10_ForbiddenHeaderFailsWhateverValue ==
    RanOnHeaderPairs =>
        \A i \in NameIndexes :
            /\ canonicalName(GivenItems[i].s) \in {S_transfer_encoding, S_keep_alive, S_upgrade, S_expect}
            /\ GivenItems[i + 1] # Undef
            => /\ phase = "failed"
               /\ Len(GivenItems) = 2
                    => IF canonicalName(GivenItems[i].s) = S_expect
                       THEN threw.name = "NotSupportedError"
                       ELSE IsInvalidHeader(threw)

\* C10 (amended): such a header makes construction fail wherever it appears
\* provided its value is not undefined (an undefined value is skipped); when
\* no earlier header fails the error is InvalidHeader for the first three,
\* and for expect it is NotSupported unless the value is a string that is
\* not a valid header value, which gives InvalidHeader.
C10_ForbiddenHeaderFailsWhenDefined ==
    RanOnHeaderPairs =>
        \A i \in NameIndexes :
            /\ canonicalName(GivenItems[i].s) \in {S_transfer_encoding, S_keep_alive, S_upgrade, S_expect}
            /\ GivenItems[i + 1] # Undef
            => /\ phase = "failed"
               /\ PrefixAccepted(i)
                    => IF /\ canonicalName(GivenItems[i].s) = S_expect
                          /\ ~(GivenItems[i + 1].t = "string"
                                 /\ ~isValidHeaderValue(GivenItems[i + 1].s))
                       THEN threw.name = "NotSupportedError"
                       ELSE IsInvalidHeader(threw)

\* A forbidden header in second place, after an accepted one, made the
\* constructor throw.
C10_Witness ==
    /\ RanOnHeaderPairs
    /\ Len(GivenItems) = 4
    /\ canonicalName(GivenItems[3].s) = S_upgrade
    /\ GivenItems[4] = Null
    /\ PrefixAccepted(3)
    /\ phase = "failed"
    /\ IsInvalidHeader(threw)

\* ------------------------------------------- single-assignment vocabulary
CanonAt(i) == canonicalName(GivenItems[i].s)

\* The positions of the headers whose canonical name is name.
IndexesOf(name) == {i \in NameIndexes : CanonAt(i) = name}

First(S) == CHOOSE i \in S : \A j \in S : i <= j

\* A scalar string that isValidHeaderValue rejects.
IsInvalidScalar(v) == v.t = "string" /\ ~isValidHeaderValue(v.s)

\* The host headers given with a scalar value.
ScalarHosts == {i \in IndexesOf(S_host) : GivenItems[i + 1].t # "array"}

\* The constructor ran on headers that all name host or content-length and
\* all have a value.
OnlySingleAssignmentHeaders ==
    /\ RanOnHeaderPairs
    /\ \A i \in NameIndexes :
          CanonAt(i) \in {S_host, S_content_length} /\ GivenItems[i + 1] # Undef

\* The value of the first header named name, as addHeader normalizes it.
FirstGiven(name) == normalizeValue(GivenItems[First(IndexesOf(name)) + 1])

\* ----------------------------------------------------------------- C11
\* C11 (as stated): when the first host header is a valid string and the
\* first content-length header parses, the request is constructed with host
\* and contentLength equal to the first ones given, whatever the values of
\* the later host and content-length headers are.
C11_FirstWinsWhateverLaterValue ==
    ( /\ OnlySingleAssignmentHeaders
      /\ IndexesOf(S_host) # {}
            => /\ First(IndexesOf(S_host)) \in ScalarHosts
               /\ ~IsInvalidScalar(GivenItems[First(IndexesOf(S_host)) + 1])
      /\ IndexesOf(S_content_length) # {}
            => /\ ~IsInvalidScalar(GivenItems[First(IndexesOf(S_content_length)) + 1])
               /\ isFinite(parseInt(FirstGiven(S_content_length))) )
    => /\ phase = "constructed"
       /\ IndexesOf(S_host) # {} => host = FirstGiven(S_host)
       /\ IndexesOf(S_content_length) # {}
             => contentLength = parseInt(FirstGiven(S_content_length))

\* C11 (amended): host ends equal to the first host header given with a
\* scalar value and contentLength to the integer parsed from the first
\* content-length header; later ones change neither, and construction fails
\* (with InvalidHeader) exactly when some header, first or later, is a string
\* that is not a valid header value, or the first content-length does not
\* parse; a later content-length that does not parse raises no error.
C11_FirstWinsAmongValidValues ==
    OnlySingleAssignmentHeaders =>
        /\ phase = "failed"
              <=> \/ \E i \in NameIndexes : IsInvalidScalar(GivenItems[i + 1])
                  \/ /\ IndexesOf(S_content_length) # {}
                     /\ ~isFinite(parseInt(FirstGiven(S_content_length)))
        /\ phase = "failed" => IsInvalidHeader(threw)
        /\ phase = "constructed"
              => /\ host = IF ScalarHosts = {} THEN Null
                           ELSE normalizeValue(GivenItems[First(ScalarHosts) + 1])
                 /\ contentLength = IF IndexesOf(S_content_length) = {} THEN Null
                                    ELSE parseInt(FirstGiven(S_content_length))

\* Content-Length: 5 followed by a content-length that does not parse: the
\* request is constructed with contentLength 5.
C11_Witness ==
    /\ OnlySingleAssignmentHeaders
    /\ Len(GivenItems) = 4
    /\ IndexesOf(S_content_length) = {1, 3}
    /\ GivenItems[2] = Str(S_5)
    /\ ~isFinite(parseInt(GivenItems[4]))
    /\ phase = "constructed"
    /\ contentLength = Num(5)

\* ----------------------------------------------------------------- C12
\* The header value v is a string that lower-cases to str.
LowersTo(v, str) == v.t = "string" /\ toLowerCase(v.s) = str

\* The connection headers given with a value.
ConnectionIndexes == {i \in IndexesOf(S_connection) : GivenItems[i + 1] # Undef}

\* C12: a connection header whose value lower-cases to `close` leaves a
\* constructed request with reset = true whatever options.reset was and
\* whatever headers surround it; one whose value lower-cases to neither
\* `close` nor `keep-alive` makes construction fail, with InvalidHeader when
\* no earlier header fails; with only `keep-alive` connection headers reset
\* is what options.reset gave (null when absent); and connection headers
\* with these two values alone never make construction fail.
C12_ConnectionHeader ==
    RanOnHeaderPairs =>
        /\ \A i \in ConnectionIndexes :
              /\ LowersTo(GivenItems[i + 1], S_close) /\ phase = "constructed"
                    => reset = Bool(TRUE)
              /\ ~LowersTo(GivenItems[i + 1], S_close)
                   /\ ~LowersTo(GivenItems[i + 1], S_keep_alive)
                    => /\ phase = "failed"
                       /\ PrefixAccepted(i) => IsInvalidHeader(threw)
        /\ ( /\ ConnectionIndexes # {}
             /\ \A i \in ConnectionIndexes : LowersTo(GivenItems[i + 1], S_keep_alive)
             /\ phase = "constructed" )
              => reset = Coalesce(args.options.reset, Null)
        /\ ( /\ ConnectionIndexes = NameIndexes
             /\ \A i \in ConnectionIndexes :
                   \/ LowersTo(GivenItems[i + 1], S_close)
                   \/ LowersTo(GivenItems[i + 1], S_keep_alive) )
              => phase = "constructed"

\* options.reset was false and `Connection: Close`, followed by another
\* header, left the request with reset = true.
C12_Witness ==
    /\ RanOnHeaderPairs
    /\ args.options.reset = Bool(FALSE)
    /\ Len(GivenItems) = 4
    /\ GivenItems[1] = Str(S_Connection)
    /\ GivenItems[2] = Str(S_Close)
    /\ CanonAt(3) = S_host
    /\ phase = "constructed"
    /\ reset = Bool(TRUE)

\* ----------------------------------------------------------------- C13
\* C13: after a successful construction contentLength is null or a
\* non-negative integer.  parseInt accepts a sign and only finiteness is
\* tested, so `Content-Length: -5` constructs a request with contentLength -5.
C13_ContentLengthIsNonNegative ==
    phase = "constructed"
        => \/ contentLength = Null
           \/ /\ contentLength.t = "number"
              /\ ~IsNaN(contentLength)
              /\ contentLength.n >= 0

\* ----------------------------------------------------------------- C14
\* The constructor ran on arguments that are valid whatever the handler: the
\* method GET or CONNECT, no upgrade or the upgrade 'websocket', no body, no
\* headers and no other option.
ValidBesidesHandler ==
    /\ phase # "new"
    /\ args.options \in { Options(m, upg, "undefined", NoHeaders) :
                            m \in {Str(S_GET), Str(S_CONNECT)},
                            upg \in {Undef, Str(S_websocket)} }

\* C14: with otherwise valid arguments construction succeeds exactly when
\* the handler has onConnect and onError and, unless upgrade is set or the
\* method is CONNECT, onHeaders, onData and onComplete; when it fails the
\* error is InvalidArgument.  The handler check is made with assert, and the
\* method CONNECT does not pass validateInputs.
C14_HandlerCapabilities ==
    ValidBesidesHandler =>
        /\ phase = "constructed"
              <=> RequiredMethods(args.options.method, args.options.upgrade) \subseteq args.handler
        /\ phase = "failed" => threw.name = "InvalidArgumentError"

\* The same for the error kind alone.
C14_MissingCapabilityIsInvalidArgument ==
    ( /\ ValidBesidesHandler
      /\ ~(RequiredMethods(args.options.method, args.options.upgrade) \subseteq args.handler) )
    => phase = "failed" /\ threw.name = "InvalidArgumentError"

\* The same for CONNECT alone.
C14_ConnectRequestIsConstructed ==
    ( /\ ValidBesidesHandler
      /\ args.options.method = Str(S_CONNECT)
      /\ args.handler = MinimalHandler )
    => phase = "constructed"

\* ----------------------------------------------------------------- C15
\* The constructor ran with no body, no headers, no upgrade, and without the
\* options idempotent and blocking.
RanWithDefaultFlags ==
    /\ phase # "new"
    /\ args.options.idempotent = Undef
    /\ args.options.blocking = Undef
    /\ args.options.body = "undefined"
    /\ args.options.headers = NoHeaders
    /\ args.options.upgrade = Undef
    /\ args.options.expectContinue = Undef
    /\ args.options.throwOnError = Undef
    /\ args.handler = FullHandler

\* C15: method GET with no body, no headers and no idempotent or blocking
\* option gives idempotent = true, blocking = false and body = null.  The
\* default of blocking is `method !== 'HEAD'`, which is true for GET.
C15_DefaultsOfGet ==
    RanWithDefaultFlags /\ args.options.method = Str(S_GET)
        => /\ phase = "constructed"
           /\ idempotent = Bool(TRUE)
           /\ blocking = Bool(FALSE)
           /\ body = "null"

\* The part of C15 the code agrees with: the defaults are a function of the
\* method alone (idempotent for GET and HEAD, blocking for all but HEAD).
C15_DefaultsDerivedFromMethod ==
    RanWithDefaultFlags /\ args.options.method \in {Str(S_GET), Str(S_HEAD), Str(S_POST)}
        => /\ phase = "constructed"
           /\ idempotent = Bool(args.options.method \in {Str(S_GET), Str(S_HEAD)})
           /\ blocking = Bool(args.options.method # Str(S_HEAD))
           /\ body = "null"

\* ----------------------------------------------------------------- C19
\* C19: construction fails with InvalidArgument whenever options.expectContinue
\* is present (neither undefined nor null), whatever its value, and whenever
\* options.throwOnError is present.  checkBooleanValidation lets a boolean
\* expectContinue through.
C19_ExpectContinueAndThrowOnErrorMustBeAbsent ==
    ( /\ phase # "new"
      /\ \/ args.options.expectContinue.t \notin {"undefined", "null"}
         \/ args.options.throwOnError.t \notin {"undefined", "null"} )
    => phase = "failed" /\ threw.name = "InvalidArgumentError"

\* The part of C19 the code agrees with: throwOnError, and an expectContinue
\* that is not a boolean.
C19_ThrowOnErrorMustBeAbsent ==
    ( /\ phase # "new"
      /\ \/ args.options.expectContinue.t \notin {"undefined", "null", "boolean"}
         \/ args.options.throwOnError.t \notin {"undefined", "null"} )
    => phase = "failed" /\ threw.name = "InvalidArgumentError"

\* ----------------------------------------------------------------- C16
\* The constructor ran on a supplied body b and arguments otherwise valid.
RanOnBody(b) ==
    /\ phase # "new"
    /\ args = Args(Options(Str(S_GET), Undef, b, NoHeaders), FullHandler)

\* C16: a stream is kept with the observers attached; bytes, a byte view or
\* a string becomes a byte buffer when non-empty and null when empty;
\* form-data-like, iterable, async-iterable or blob-like is kept; any other
\* supplied value, 0 and false included, fails with InvalidArgument.
\* `options.body ? ... : null` turns 0 and false into null, isIterable does
\* not know Symbol.asyncIterator, and a DataView has no length.
C16_BodyClassification ==
    /\ \A b \in {"stream", "streamAutoDestroy"} :
          RanOnBody(b) => phase = "constructed" /\ body = b /\ "error" \in listeners
    /\ \A b \in {"string", "bytes", "dataView"} :
          RanOnBody(b) => phase = "constructed" /\ body = "buffer"
    /\ \A b \in {"emptyString", "emptyBytes"} :
          RanOnBody(b) => phase = "constructed" /\ body = "null"
    /\ \A b \in {"formData", "iterable", "asyncIterable", "blob"} :
          RanOnBody(b) => phase = "constructed" /\ body = b /\ listeners = {}
    /\ \A b \in {"object", "number", "zero", "false"} :
          RanOnBody(b) => phase = "failed" /\ threw.name = "InvalidArgumentError"

\* The part of C16 the code agrees with: every kind but the falsy values,
\* the async-iterable and the DataView.
C16_BodyClassificationOfTheOtherKinds ==
    /\ \A b \in {"stream", "streamAutoDestroy"} :
          RanOnBody(b) => phase = "constructed" /\ body = b /\ "error" \in listeners
    /\ \A b \in {"string", "bytes"} :
          RanOnBody(b) => phase = "constructed" /\ body = "buffer"
    /\ \A b \in {"emptyString", "emptyBytes"} :
          RanOnBody(b) => phase = "constructed" /\ body = "null"
    /\ \A b \in {"formData", "iterable", "blob"} :
          RanOnBody(b) => phase = "constructed" /\ body = b /\ listeners = {}
    /\ \A b \in {"object", "number"} :
          RanOnBody(b) => phase = "failed" /\ threw.name = "InvalidArgumentError"

\* ----------------------------------------------------------------- C17
\* The iterators that have obtained the iterator of the underlying body or
\* yielded one of its elements.
Readers == {i \in 1..Len(iterators) : iterators[i].opened \/ iterators[i].yielded > 0}

\* C17: of the iterators obtained from one wrapped body, in whatever order
\* they are obtained and advanced, at most one ever reads the underlying
\* body; every other one that is advanced has failed with the assertion
\* error `Body has already been used` (the spec's InvalidState) and has read
\* nothing; one that was never advanced has read nothing.
C17_ConsumedAtMostOnce ==
    /\ Cardinality(Readers) <= 1
    /\ \A i \in 1..Len(iterators) :
          /\ iterators[i].advanced /\ i \notin Readers
                => /\ iterators[i].error = "AssertionError"
                   /\ iterators[i].state = "completed"
          /\ iterators[i].error # "none" => i \notin Readers
          /\ ~iterators[i].advanced => i \notin Readers
          /\ i \in Readers => kBodyUsed

\* Two iterators were obtained before either was advanced; the second one
\* read the body, and advancing the first one then failed.
C17_Witness ==
    /\ Len(iterators) >= 2
    /\ iterators[2].yielded > 0
    /\ iterators[1].error = "AssertionError"
    /\ 1 \notin Readers

\* ----------------------------------------------------------------- C18
\* The delimiters "(),/:;<=>?@[\]{} of RFC 7230.
DelimiterCodes == {34, 40, 41, 44, 47, 58, 59, 60, 61, 62, 63, 64, 91, 92, 93, 123, 125}

\* A token character: visible ASCII that is no delimiter.
IsRFC7230TokenChar(c) == c \in 33..126 /\ c \notin DelimiterCodes

\* C18: isValidHTTPToken(s) is true exactly when s is non-empty and each of
\* its characters is an RFC 7230 token character.  isTokenCharCode rejects
\* the ranges 0x2c-0x2f, 0x40-0x5d and 0x7b-0x7d whole, so `-`, `.`, the
\* upper-case letters and `|` are rejected, and it accepts `?` (0x3f).
C18_TokenPredicate ==
    helperCall.fn = "isValidHTTPToken"
        => helperCall.output
             = ( /\ Len(helperCall.input) > 0
                 /\ \A i \in 1..Len(helperCall.input) :
                       IsRFC7230TokenChar(helperCall.input[i]) )

\* ----------------------------------------------------------------- C20
RECURSIVE ValuesOf(_, _, _)
\* The values, in order, of the raw headers from i on whose name is name
\* up to case.
ValuesOf(raw, name, i) ==
    IF i > Len(raw) THEN <<>>
    ELSE (IF toLowerCase(raw[i]) = name THEN <<Str(raw[i + 1])>> ELSE <<>>)
         \o ValuesOf(raw, name, i + 2)

\* C20: parseHeaders maps each name that occurs once to its value and each
\* name that occurs k >= 2 times, compared case-insensitively, to the array
\* of its k values in first-seen order, the empty string included
\* (content-disposition in the presence of content-length, which the
\* decoder transcodes, is left out).  The test `!obj[key]` takes an empty
\* string already stored for a missing entry, so the next value replaces it.
C20_RepeatedNamesMerge ==
    helperCall.fn = "parseHeaders" =>
        LET raw == helperCall.input
            obj == helperCall.output
            names == {toLowerCase(raw[i]) : i \in {j \in 1..Len(raw) : j % 2 = 1}}
        IN  /\ {obj[i].key : i \in 1..Len(obj)} = names
            /\ \A name \in names :
                  ~(name = S_content_disposition /\ S_content_length \in names)
                    => ObjGet(obj, name)
                         = IF Len(ValuesOf(raw, name, 1)) = 1 THEN ValuesOf(raw, name, 1)[1]
                           ELSE Arr(ValuesOf(raw, name, 1))

\* The part of C20 the code agrees with: the same for names none of whose
\* values but the last is the empty string.
C20_RepeatedNamesMergeNonEmpty ==
    helperCall.fn = "parseHeaders" =>
        LET raw == helperCall.input
            obj == helperCall.output
            names == {toLowerCase(raw[i]) : i \in {j \in 1..Len(raw) : j % 2 = 1}}
        IN  /\ {obj[i].key : i \in 1..Len(obj)} = names
            /\ \A name \in names :
                  /\ ~(name = S_content_disposition /\ S_content_length \in names)
                  /\ \A k \in 1..(Len(ValuesOf(raw, name, 1)) - 1) :
                        ValuesOf(raw, name, 1)[k] # Str(<<>>)
                  => ObjGet(obj, name)
                       = IF Len(ValuesOf(raw, name, 1)) = 1 THEN ValuesOf(raw, name, 1)[1]
                         ELSE Arr(ValuesOf(raw, name, 1))

\* ----------------------------------------------------------------- C21
\* The wire format bytes=<start>-<end>/<size> read from the claim: <start>
\* is a number, <end> and <size> are numbers or missing.  The parts found,
\* or ok = FALSE for any other string.
WireFormat(str) ==
    LET i1 == Len(S_bytes_eq) + 1
        j1 == DigitsEnd(str, i1)
        j2 == DigitsEnd(str, j1 + 1)
        j3 == DigitsEnd(str, j2 + 1)
    IN  IF /\ Len(str) >= Len(S_bytes_eq)
           /\ SubSeq(str, 1, Len(S_bytes_eq)) = S_bytes_eq
           /\ j1 > i1 /\ j1 <= Len(str) /\ str[j1] = 45
           /\ j2 <= Len(str) /\ str[j2] = 47
           /\ j3 = Len(str) + 1
        THEN [ok |-> TRUE, start |-> SubSeq(str, i1, j1 - 1),
              end |-> SubSeq(str, j1 + 1, j2 - 1), size |-> SubSeq(str, j2 + 1, j3 - 1)]
        ELSE [ok |-> FALSE, start |-> <<>>, end |-> <<>>, size |-> <<>>]

\* The number a part stands for, null when the part is missing.
PartValue(part) == IF part = <<>> THEN Null ELSE Num(DigitsValue(part, 1, -1))

\* C21: an absent or empty header gives {start: 0, end: null, size: null};
\* a header of the wire format, with <end> and <size> each given or
\* omitted, gives its parts with null for an omitted one; every other input
\* gives null.  The pattern requires the digits of <end>.
C21_RangeHeader ==
    helperCall.fn = "parseRangeHeader" =>
        LET range == helperCall.input
        IN  IF range.t # "string" \/ range.s = <<>>
            THEN helperCall.output = Range(Num(0), Null, Null)
            ELSE IF WireFormat(range.s).ok
            THEN helperCall.output
                   = Range(PartValue(WireFormat(range.s).start),
                           PartValue(WireFormat(range.s).end),
                           PartValue(WireFormat(range.s).size))
            ELSE helperCall.output = RangeNull

\* The part of C21 the code agrees with: the same when <end> is given.
C21_RangeHeaderWithEnd ==
    helperCall.fn = "parseRangeHeader" =>
        LET range == helperCall.input
        IN  IF range.t # "string" \/ range.s = <<>>
            THEN helperCall.output = Range(Num(0), Null, Null)
            ELSE IF WireFormat(range.s).ok /\ WireFormat(range.s).end # <<>>
            THEN helperCall.output
                   = Range(PartValue(WireFormat(range.s).start),
                           PartValue(WireFormat(range.s).end),
                           PartValue(WireFormat(range.s).size))
            ELSE helperCall.output = RangeNull

\* ----------------------------------------------------------------- C23
\* C23: when the constructor fails after being given a stream body, the
\* failed request has no 'error' or 'end' listener left on the stream and no
\* request-created event was published.  The listeners are attached on line
\* 13, before processHeaders and assertRequestHandler can throw, and nothing
\* detaches them on the way out.
C23_FailedConstructionLeavesNoListener ==
    phase = "failed" /\ IsStreamBody(args.options.body)
        => listeners = {} /\ ~errorHandler /\ ~endHandler /\ ~created

\* The part of C23 the code agrees with: a failed construction publishes no
\* request-created event, and a successful one does.
C23_CreatedOnlyWhenConstructed ==
    phase # "new" => (created <=> phase = "constructed")

\* ----------------------------------------------------------------- C22
\* C22: onComplete on a request that is already completed or aborted runs
\* the finalization first (no listener of the request is left on the body
\* stream), then fails its assertion: the handler's onComplete is not
\* invoked, no trailers event is published, and completed and aborted keep
\* their values.
C22_OnCompleteOnTerminalRequest ==
    [][ (completed \/ aborted) /\ IsCallOf("onComplete")
          => /\ listeners' = {} /\ ~errorHandler' /\ ~endHandler'
             /\ last'.result = "AssertionError"
             /\ last'.fwd = "none" /\ forwarded' = forwarded
             /\ published' = "none"
             /\ completed' = completed /\ aborted' = aborted ]_vars

\* onComplete has failed its assertion on a terminal request with a body
\* stream that never ended by itself.
C22_Witness ==
    /\ last.op = "onComplete" /\ last.result = "AssertionError"
    /\ completed \/ aborted
    /\ body = "stream" /\ ~streamEnded
    /\ published = "none"

\* ========================================================= SpecReentrant
\* The handler's callback runs inside the lifecycle call that invoked it
\* (invokeHandlerMethod is synchronous).  Here a terminal call is two steps:
\* the statements up to the invocation of the handler, and the handler's
\* return or throw.  Between the two the callback is in `running`, and a
\* call made now is made by that callback, or by the abort function it
\* called.

\* Mutant: the handler is notified with the terminal flag still as it was.
flagAtNotify_unset(flag) == flag

\* this.completed = true (line 236) and this.aborted = true (line 250): the
\* value of the flag when invokeHandlerMethod is reached.
flagAtNotify(flag) == TRUE

\* invokeHandlerMethod up to this.#handler[method](...args): the callback
\* starts running when the handler has the method.
EnterHandler(op, fn, m) ==
    IF m \in p_handler
    THEN /\ forwarded' = Append(forwarded, m)
         /\ running' = Append(running, m)
         /\ last' = Call(op, Undefined, "running", m, fn, Undefined, FALSE)
    ELSE /\ forwarded' = forwarded
         /\ running' = running
         /\ last' = Call(op, Undefined, "returned", "none", fn, Undefined, FALSE)

\* How request.onError is reached: called directly, or by the abort function
\* stored by onConnect, which the running callback has called.
Vias == {"direct", "abort"}

\* request.onError(error), up to the invocation of the handler.
EnterOnError(via) ==
    /\ phase = "constructed"
    /\ calls < MaxCalls
    /\ via = "abort" => running # <<>> /\ p_abort # Undefined
    /\ calls' = calls + 1
    /\ Finalize
    /\ published' = "error"
    /\ IF onErrorIsNoOp
       THEN /\ last' = Call("onError", Undefined, "returned", "none",
                            IF via = "abort" THEN p_abort ELSE Undefined, Undefined, FALSE)
            /\ UNCHANGED <<forwarded, running, aborted>>
       ELSE /\ aborted' = flagAtNotify(aborted)
            /\ EnterHandler("onError", IF via = "abort" THEN p_abort ELSE Undefined, "onError")
    /\ UNCHANGED <<completed, p_abort, p_error, body, p_handler, streamEnded, raised,
                   delivered>>
    /\ UNCHANGED <<ctorVars, utilVars>>

\* request.onComplete(trailers), up to the invocation of the handler.
EnterOnComplete ==
    /\ phase = "constructed"
    /\ calls < MaxCalls
    /\ calls' = calls + 1
    /\ Finalize
    /\ IF ~assertNotTerminal
       THEN /\ AssertionFails("onComplete", Undefined)
            /\ published' = "none"
            /\ UNCHANGED <<completed, running>>
       ELSE /\ completed' = flagAtNotify(completed)
            /\ published' = "trailers"
            /\ EnterHandler("onComplete", Undefined, "onComplete")
    /\ UNCHANGED <<aborted, p_abort, p_error, body, p_handler, streamEnded, raised,
                   delivered>>
    /\ UNCHANGED <<ctorVars, utilVars>>

\* The innermost running callback.
Top == running[Len(running)]

Pop == SubSeq(running, 1, Len(running) - 1)

\* The innermost callback returns: invokeHandlerMethod returns its value.
HandlerReturns ==
    /\ running # <<>>
    /\ running' = Pop
    /\ last' = Call(Top, Undefined, "returned", Top, Undefined, Undefined, FALSE)
    /\ published' = "none"
    /\ UNCHANGED <<completed, aborted, p_abort, p_error, errorHandler, endHandler, body,
                   p_handler, listeners, streamEnded, raised, forwarded, delivered, calls,
                   finalized>>
    /\ UNCHANGED <<ctorVars, utilVars>>

\* The innermost callback throws: the catch block calls this.abort(err).
HandlerThrows ==
    /\ running # <<>>
    /\ running' = Pop
    /\ IF thisAbort = Undefined
       THEN last' = Call(Top, Undefined, "TypeError", Top, Undefined, Undefined, TRUE)
       ELSE last' = Call(Top, Undefined, "returned", Top, thisAbort, HandlerError, TRUE)
    /\ published' = "none"
    /\ UNCHANGED <<completed, aborted, p_abort, p_error, errorHandler, endHandler, body,
                   p_handler, listeners, streamEnded, raised, forwarded, delivered, calls,
                   finalized>>
    /\ UNCHANGED <<ctorVars, utilVars>>

InitReentrant == Init

NextReentrant ==
    \/ \E abort \in AbortFns, hb \in HandlerBehaviours : running = <<>> /\ onConnect(abort, hb)
    \/ \E via \in Vias : EnterOnError(via)
    \/ EnterOnComplete
    \/ HandlerReturns
    \/ HandlerThrows

SpecReentrant == InitReentrant /\ [][NextReentrant]_vars

\* ----------------------------------------------------------------- C24
\* The handler's callback m is running.
IsRunning(m) == \E i \in 1..Len(running) : running[i] = m

\* C24: the terminal flag is set before the handler is notified.  While the
\* handler's onError is running the request is aborted, and a call of
\* request.onError made meanwhile, directly or through the abort function,
\* invokes no handler method; the handler's onError is invoked at most once
\* altogether.  While the handler's onComplete is running the request is
\* completed.
C24_TerminalFlagSetBeforeNotify ==
    /\ [](IsRunning("onError") => aborted)
    /\ [](IsRunning("onComplete") => completed)
    /\ [][ IsRunning("onError") /\ IsCallOf("onError")
              => forwarded' = forwarded /\ running' = running ]_vars
    /\ [](Count(forwarded, "onError") <= 1)

\* The handler's onComplete called request.onError, the handler's onError
\* called it again, and that call has returned without a second
\* notification; both callbacks are still running.
C24_Witness ==
    /\ running = <<"onComplete", "onError">>
    /\ last.op = "onError" /\ last.result = "returned" /\ last.fwd = "none"
    /\ completed /\ aborted
    /\ Count(forwarded, "onError") = 1

====
